---------------------------- MODULE Spec2Model ----------------------------
(***************************************************************************)
(* The surface-currents notebooks as a state machine: the dataset preparer *)
(* (surface_currents_prep.ipynb) and the cells of the training notebook    *)
(* (rolling-window patch construction, shuffle, batch_generator, training  *)
(* loop, test and prediction stages, reshape of the predictions).          *)
(*                                                                         *)
(* Field values are abstracted to defined / NaN.  Grid points are pairs    *)
(* <<row, col>> = <<nlat index, nlon index>>, 0-based as in the code.      *)
(* Sequences are 1-based, so the Python index k is the TLA+ index k + 1.   *)
(***************************************************************************)
EXTENDS Integers, Sequences, FiniteSets, TLC

VARIABLES
    raw_nan,        \* catalog dataset: the cells <<var, time, point>> that are NaN
    grid,           \* extents <<rows, cols>> of the region select_from keeps
    conv_dims,      \* [nlons, nlats], the sample window
    conv_kernels,   \* kernel size of each convolution layer
    batch_size,     \* second argument of batch_generator
    mask_time,      \* mask_time argument of prepare_data
    store,          \* zarr store 'scenarios/': group key -> persisted slice
    prep,           \* the last prepare_data call: arguments, outcome, store before it
    made,           \* number of runs of the cell that binds bgen
    ds_training, ds_test, ds_predict,
    halo_size, nlons, nlats,
    latlen, lonlen, nlon_range, nlat_range,
    batch,          \* notebook global `batch`
    rnds,
    bgen,           \* the generator object
    sub,
    yielded,        \* mini-batches delivered in the current pass over bgen
    passes,         \* the yields of each completed pass over bgen
    fit_log,        \* arguments of every model.fit call, in order
    saved,          \* model and history written under models/
    batch_test, batch_predict,
    predict_target, U_pred,
    pc,             \* the next cell to run
    error           \* the exception that stopped the run, or "none"

vars == <<raw_nan, grid, conv_dims, conv_kernels, batch_size, mask_time, store,
          prep, made,
          ds_training, ds_test, ds_predict, halo_size, nlons, nlats,
          latlen, lonlen, nlon_range, nlat_range, batch, rnds, bgen, sub,
          yielded, passes, fit_log, saved, batch_test, batch_predict,
          predict_target, U_pred, pc, error>>

---------------------------------------------------------------------------
(* Bounds of the model.                                                    *)

MaxLat == 6
MaxLon == 4
MaxWin == 3
MaxKernel == 3
MaxLayers == 2
MaxBatch == 2
MaxPatches == 3
MapPatches == 6
MaxPasses == 2
DataLat == 4
DataLon == 3
DataWin == 2
DataPatches == 4
MaxNaN == 1

---------------------------------------------------------------------------
(* Program constants.                                                      *)

TrainingTime == 200
TestTime == 1000
PredictTime == 1000
MaskTimeDefault == 11
CropLatLo == 500
CropLonLo == 1850
CropRows == 550
CropCols == 350
NotebookWindow == 5
ReshapeRows == 545
ReshapeCols == 345
TrueFieldLo == 3
TrueFieldHi == -2

target == <<"U", "V">>
sc1 == [conv_var |-> <<"SSH">>, input_var |-> <<"TAUX", "TAUY">>,
        target |-> target, name |-> "derp"]
sc5 == [conv_var |-> <<"SSH", "SST">>, input_var |-> <<"X", "TAUX", "TAUY">>,
        target |-> target, name |-> "herp"]
sc == sc5

MaskVars == {"SSH", "TAUY", "U"}

---------------------------------------------------------------------------
(* Helpers.                                                                *)

Elems(s) == {s[i] : i \in 1..Len(s)}

RECURSIVE Sum(_)
Sum(s) == IF s = <<>> THEN 0 ELSE Head(s) + Sum(Tail(s))

\* Python int(x / 2) for an integer numerator: truncation towards zero.
TruncHalf(x) == IF x >= 0 THEN x \div 2 ELSE -((-x) \div 2)

Perms(n) == {p \in [1..n -> 1..n] : \A i, j \in 1..n : p[i] = p[j] => i = j}

---------------------------------------------------------------------------
(* Data preparation (surface_currents_prep.ipynb).                         *)

varList(s) == s.conv_var \o s.input_var \o s.target

\* The smallest catalog grid that contains the region select_from keeps.
RawDims(g) == <<CropLatLo + g[1], CropLonLo + g[2]>>

\* A mask that is false where a mask variable is NaN at any time index.
MaskFalse_AnyTime(raw, mt) == {c[3] : c \in {d \in raw : d[1] \in MaskVars}}

\* get_mask_from and the mask of prepare_data: the points where the mask is
\* False, i.e. where SSH, TAUY or U is NaN at index mt of the time axis.
MaskFalse(raw, mt) == {c[3] : c \in {d \in raw : d[1] \in MaskVars /\ d[2] = mt}}

\* ds[varList], ds['mask'] = mask, ds.isel(time = t); src records the role
\* the slice is written for.
Slice(raw, g, s, t, mt, role) ==
    [src       |-> role,
     dims      |-> RawDims(g),
     vars      |-> Elems(varList(s)) \cup {"mask"},
     nan       |-> {<<c[1], c[3]>> : c \in {d \in raw : d[2] = t /\ d[1] \in Elems(varList(s))}},
     maskFalse |-> MaskFalse(raw, mt),
     time      |-> t]

\* The group key written by prepare_data: 'training_' + sc.name + '.zarr',
\* 'test_' + sc.name + '.zarr', 'predict_' + sc.name + '.zarr'.
WriteKey(prefix, s) == prefix \o s.name \o ".zarr"

\* A loader key without the separator between role and scenario name.
ReadKey_NoSeparator(name, s) == name \o s.name \o ".zarr"

\* The group key name + '_' + sc.name + '.zarr' read by loader.
ReadKey(name, s) == name \o "_" \o s.name \o ".zarr"

NoDataset == [src |-> "none", dims |-> <<0, 0>>, vars |-> {}, nan |-> {}, maskFalse |-> {}, time |-> -1]

\* A write that adds to an existing group and keeps its other variables.
ToZarr_Append(st, key, ds) ==
    [k \in DOMAIN st \cup {key} |->
        IF k # key THEN st[k]
        ELSE IF key \in DOMAIN st THEN [ds EXCEPT !.vars = ds.vars \cup st[key].vars]
        ELSE ds]

\* to_zarr(..., mode = 'w'): the group is replaced.
ToZarr(st, key, ds) == [k \in DOMAIN st \cup {key} |-> IF k = key THEN ds ELSE st[k]]

loader(st, s, name) == st[ReadKey(name, s)]

\* just_the_data drops coordinates and attributes: the time coordinate goes,
\* the data variables and their values stay.
just_the_data(ds) == [ds EXCEPT !.time = -1]

\* select_from: isel on range(CropLonLo, ..) and range(CropLatLo, ..); the
\* kept points are re-indexed from 0.
select_from(ds, g) ==
    LET Kept(p) == /\ p[1] >= CropLatLo /\ p[1] < CropLatLo + g[1]
                   /\ p[2] >= CropLonLo /\ p[2] < CropLonLo + g[2]
        Rebase(p) == <<p[1] - CropLatLo, p[2] - CropLonLo>>
    IN [ds EXCEPT !.dims = g,
                  !.nan = {<<c[1], Rebase(c[2])>> : c \in {d \in ds.nan : Kept(d[2])}},
                  !.maskFalse = {Rebase(p) : p \in {q \in ds.maskFalse : Kept(q)}}]

\* The variables of the catalog dataset after the rename and add_grid.
CatalogVars ==
    {"U", "V", "TAUX", "TAUY", "SSH", "XU", "YU", "SST", "DXT", "DYT",
     "X", "Y", "Z", "dx", "dy"}

\* The shortest time axis on which the notebook's prepare_data call succeeds.
TimeAxisLen == PredictTime + 1

\* An integer index of the time axis that isel accepts.
TimeInRange(t) == t >= -TimeAxisLen /\ t < TimeAxisLen

\* The position a valid Python index refers to.
TimeIndex(t) == IF t < 0 THEN t + TimeAxisLen ELSE t

NoCall ==
    [s |-> [conv_var |-> <<>>, input_var |-> <<>>, target |-> <<>>, name |-> ""],
     training_time |-> 0, test_time |-> 0, predict_time |-> 0, mask_time |-> 0,
     catalog |-> "none", error |-> "not called", before |-> <<>>]

\* prepare_data(s, training_time, test_time, predict_time, mt) on the store
\* st, in the order of its statements: open the catalog, rename, add_grid,
\* the mask at mt, ds[varList], then for each role isel followed by to_zarr.
\* An exception ends the call where it is raised; what was written before
\* stays written.
prepare_data(st, raw, g, s, training_time, test_time, predict_time, mt, catalog) ==
    LET w1 == ToZarr(st, WriteKey("training_", s),
                     Slice(raw, g, s, TimeIndex(training_time), TimeIndex(mt), "training"))
        w2 == ToZarr(w1, WriteKey("test_", s),
                     Slice(raw, g, s, TimeIndex(test_time), TimeIndex(mt), "test"))
        w3 == ToZarr(w2, WriteKey("predict_", s),
                     Slice(raw, g, s, TimeIndex(predict_time), TimeIndex(mt), "predict"))
    IN IF catalog = "unreachable" THEN [store |-> st, error |-> "ConnectionError"]
       ELSE IF catalog = "missing_variable" THEN [store |-> st, error |-> "ValueError"]
       ELSE IF ~TimeInRange(mt) THEN [store |-> st, error |-> "IndexError"]
       ELSE IF ~(Elems(varList(s)) \subseteq CatalogVars)
            THEN [store |-> st, error |-> "KeyError"]
       ELSE IF ~TimeInRange(training_time) THEN [store |-> st, error |-> "IndexError"]
       ELSE IF ~TimeInRange(test_time) THEN [store |-> w1, error |-> "IndexError"]
       ELSE IF ~TimeInRange(predict_time) THEN [store |-> w2, error |-> "IndexError"]
       ELSE [store |-> w3, error |-> "none"]

---------------------------------------------------------------------------
(* Window arithmetic.                                                      *)

\* halo_size = int((np.sum(conv_kernels) - len(conv_kernels))/2)
HaloSize(kernels) == TruncHalf(Sum(kernels) - Len(kernels))

\* A range that would include its stop value.
RangeLen_InclusiveStop(start, stop, step) ==
    IF step > 0 /\ start <= stop THEN ((stop - start) \div step) + 1
    ELSE IF step < 0 /\ start >= stop THEN ((start - stop) \div (-step)) + 1
    ELSE 0

\* len(range(start, stop, step)), step # 0
RangeLen(start, stop, step) ==
    IF step > 0 /\ start < stop THEN ((stop - start - 1) \div step) + 1
    ELSE IF step < 0 /\ start > stop THEN ((start - stop - 1) \div (-step)) + 1
    ELSE 0

\* A range that ignores its start and begins at 0.
Range_FromZero(start, stop, step) ==
    [i \in 1..RangeLen(0, stop, step) |-> (i - 1) * step]

\* list(range(start, stop, step)), step # 0
Range(start, stop, step) ==
    [i \in 1..RangeLen(start, stop, step) |-> start + (i - 1) * step]

\* The stride of the anchors along an axis with window w.
Stride(w, halo) == w - 2 * halo

---------------------------------------------------------------------------
(* Rolling-window patch construction.                                      *)

\* A window centred on its position (rolling with center = True).
WindowStart_Centered(a, w) == a - (w \div 2)

\* The first grid index of the rolling window of length w at position a:
\* the window ends at a.
WindowStart(a, w) == a - w + 1

\* rolling(...).construct(...) at the window position <<a, b>>: the window
\* ends at the anchor; element <<i, j>> of the window is grid point
\* <<a - wr + 1 + i, b - wc + 1 + j>>, filled with NaN before the leading edge.
Window(ds, a, b, wr, wc) ==
    LET At(i, j) == <<WindowStart(a, wr) + i, WindowStart(b, wc) + j>>
        Padded(i, j) == At(i, j)[1] < 0 \/ At(i, j)[2] < 0
        Win == (0..(wr - 1)) \X (0..(wc - 1))
    IN [nlat      |-> a,
        nlon      |-> b,
        nan       |-> {c \in ds.vars \X Win :
                          \/ Padded(c[2][1], c[2][2])
                          \/ <<c[1], At(c[2][1], c[2][2])>> \in ds.nan},
        maskFalse |-> {q \in Win : ~Padded(q[1], q[2]) /\ At(q[1], q[2]) \in ds.maskFalse},
        src       |-> ds.src]

\* A stack with nlon as the outer and nlat as the inner dimension.
Stack_ColumnMajor(rows, cols) ==
    [k \in 1..(Len(rows) * Len(cols)) |->
        <<rows[((k - 1) % Len(rows)) + 1], cols[((k - 1) \div Len(rows)) + 1]>>]

\* stack({"input_batch": ("nlat", "nlon")}): the anchor pairs in row-major
\* order, nlat outer and nlon inner.
Stack(rows, cols) ==
    [k \in 1..(Len(rows) * Len(cols)) |->
        <<rows[((k - 1) \div Len(cols)) + 1], cols[((k - 1) % Len(cols)) + 1]>>]

\* A dropna restricted to the variables that are not targets.
HasNaN_InputsOnly(p, names) ==
    \E c \in p.nan : c[1] \in names /\ c[1] \notin Elems(sc.target)

\* dropna('input_batch'): how = 'any' over every data variable.
HasNaN(p, names) == \E c \in p.nan : c[1] \in names

DropNa(patches, names) ==
    LET Keep(p) == ~HasNaN(p, names) IN SelectSeq(patches, Keep)

\* An index of either range that is not an index of its axis.
OutOfBounds(rows, cols, nrows, ncols) ==
    \/ \E i \in 1..Len(rows) : rows[i] >= nrows \/ rows[i] < -nrows
    \/ \E j \in 1..Len(cols) : cols[j] >= ncols \/ cols[j] < -ncols

\* The patch collection of a dataset: construct, select the anchors, stack,
\* dropna.
Patches(ds, rows, cols, wr, wc) ==
    LET pairs == Stack(rows, cols)
    IN DropNa([k \in 1..Len(pairs) |-> Window(ds, pairs[k][1], pairs[k][2], wr, wc)],
              ds.vars)

---------------------------------------------------------------------------
(* Shuffle, batch_generator and the per-batch tensors.                     *)

\* Index lists drawn with replacement.
ShuffleOutcomes_WithReplacement(n) == [1..n -> 0..(n - 1)]

\* rnds after np.random.shuffle(list(range(n))): any permutation of 0..n-1.
ShuffleOutcomes(n) == {[i \in 1..n |-> p[i] - 1] : p \in Perms(n)}

\* batch[{'input_batch': idx}] and batch_set.isel({'input_batch': idx})
Isel(patches, idx) == [i \in 1..Len(idx) |-> patches[idx[i] + 1]]

\* bgen = batch_generator(batch_set, batch_size): nothing of the body has
\* run yet.
batch_generator(batch_set, bsize) ==
    [batch_set |-> batch_set, batch_size |-> bsize, n |-> 0, status |-> "created"]

NoGenerator == [batch_set |-> <<>>, batch_size |-> 0, n |-> 0, status |-> "unbound"]

\* The test of the while loop of batch_generator.
LoopTest(n, len, bsize) == n < len - bsize

\* next(bgen): run the body up to the next yield or to its end.  A created
\* generator starts at n = 0, a suspended one resumes with n += batch_size,
\* a finished one raises StopIteration again.
GenNext(g) ==
    IF g.status \notin {"created", "suspended"}
    THEN [gen |-> g, yields |-> FALSE, value |-> <<>>]
    ELSE LET n1 == IF g.status = "created" THEN 0 ELSE g.n + g.batch_size
         IN IF LoopTest(n1, Len(g.batch_set), g.batch_size)
            THEN [gen    |-> [g EXCEPT !.n = n1, !.status = "suspended"],
                  yields |-> TRUE,
                  value  |-> Isel(g.batch_set, Range(n1, n1 + g.batch_size, 1))]
            ELSE [gen    |-> [g EXCEPT !.n = n1, !.status = "done"],
                  yields |-> FALSE,
                  value  |-> <<>>]

\* A stencil that trims the halo at the leading edge only.
Sub_LeadingTrimOnly(halo, wlon, wlat) ==
    [nlon |-> Range(halo, wlon, 1), nlat |-> Range(halo, wlat, 1)]

\* sub = {'nlon': range(halo_size, nlons-halo_size),
\*        'nlat': range(halo_size, nlats-halo_size)}
Sub(halo, wlon, wlat) ==
    [nlon |-> Range(halo, wlon - halo, 1), nlat |-> Range(halo, wlat - halo, 1)]

NoSub == [nlon |-> <<>>, nlat |-> <<>>]

\* [b[x] for x in names] merged and stacked on a trailing 'var' axis: the
\* full window of every sample.
FullTensor(b, names, wlat, wlon) ==
    [samples |-> b,
     nlat    |-> Range(0, wlat, 1),
     nlon    |-> Range(0, wlon, 1),
     var     |-> names]

\* [b[x][sub] for x in names] merged and stacked on a trailing 'var' axis.
SubTensor(b, names, stencil) ==
    [samples |-> b,
     nlat    |-> stencil.nlat,
     nlon    |-> stencil.nlon,
     var     |-> names]

Shape(t) == <<Len(t.samples), Len(t.nlat), Len(t.nlon), Len(t.var)>>

\* Fit arguments whose label is built from the dense-branch variables.
FitArgs_LabelFromInputs(b, s, stencil, wlat, wlon) ==
    [batch_conv   |-> FullTensor(b, s.conv_var, wlat, wlon),
     batch_input  |-> SubTensor(b, s.input_var, stencil),
     batch_target |-> SubTensor(b, s.input_var, stencil)]

\* The arguments of one model.fit call of the training loop.
FitArgs(b, s, stencil, wlat, wlon) ==
    [batch_conv   |-> FullTensor(b, s.conv_var, wlat, wlon),
     batch_input  |-> SubTensor(b, s.input_var, stencil),
     batch_target |-> SubTensor(b, s.target, stencil)]

\* The indices an axis of length len keeps under the slice [start:stop],
\* negative bounds counted from the end.
PySlice(len, start, stop) ==
    LET Norm(x) == IF x < 0 THEN (IF x + len < 0 THEN 0 ELSE x + len)
                   ELSE (IF x > len THEN len ELSE x)
        lo == Norm(start)
        hi == Norm(stop)
    IN [i \in 1..(IF hi > lo THEN hi - lo ELSE 0) |-> lo + i - 1]

\* numpy reshape(rows, cols) of a flat array, row-major.
Reshape(flat, rows, cols) ==
    [i \in 1..rows |-> [j \in 1..cols |-> flat[(i - 1) * cols + j]]]

\* The cell that computes the anchor ranges and the patch collection of ds.
\* range() raises ValueError for a step of 0, before anything later runs;
\* selecting an index that is not on the axis raises IndexError.
BuildOutcome(ds, wlat, wlon, halo, prevLon, prevLat) ==
    LET nrows == ds.dims[1]
        ncols == ds.dims[2]
        sLon  == Stride(wlon, halo)
        sLat  == Stride(wlat, halo)
        lonr  == Range(wlon, ncols, sLon)
        latr  == Range(wlat, nrows, sLat)
    IN IF sLon = 0
       THEN [error |-> "ValueError", nlon_range |-> prevLon, nlat_range |-> prevLat,
             patches |-> <<>>]
       ELSE IF sLat = 0
       THEN [error |-> "ValueError", nlon_range |-> lonr, nlat_range |-> prevLat,
             patches |-> <<>>]
       ELSE IF OutOfBounds(latr, lonr, nrows, ncols)
       THEN [error |-> "IndexError", nlon_range |-> lonr, nlat_range |-> latr,
             patches |-> <<>>]
       ELSE [error |-> "none", nlon_range |-> lonr, nlat_range |-> latr,
             patches |-> Patches(ds, latr, lonr, wlat, wlon)]

---------------------------------------------------------------------------
(* Initial states.                                                         *)

KernelLists(maxLayers, maxKernel) ==
    {[i \in 1..n |-> k] : n \in 1..maxLayers, k \in 1..maxKernel}

\* The catalog cells of the region select_from keeps.
RawPoints(g) ==
    {<<CropLatLo + r, CropLonLo + c>> : r \in 0..(g[1] - 1), c \in 0..(g[2] - 1)}

RECURSIVE NaNSets(_, _)
NaNSets(cells, k) ==
    IF k = 0 THEN {{}}
    ELSE LET prev == NaNSets(cells, k - 1)
         IN prev \cup {x \cup {c} : x \in prev, c \in cells}

\* The number of anchor pairs of a configuration (0 when range() raises).
AnchorPairs(g, dims, kernels) ==
    LET halo == HaloSize(kernels)
    IN IF Stride(dims[1], halo) = 0 \/ Stride(dims[2], halo) = 0 THEN 0
       ELSE RangeLen(dims[2], g[1], Stride(dims[2], halo))
            * RangeLen(dims[1], g[2], Stride(dims[1], halo))

InitNotebook ==
    /\ store = <<>> /\ prep = NoCall /\ made = 0
    /\ ds_training = NoDataset /\ ds_test = NoDataset /\ ds_predict = NoDataset
    /\ halo_size = 0 /\ nlons = 0 /\ nlats = 0
    /\ latlen = 0 /\ lonlen = 0 /\ nlon_range = <<>> /\ nlat_range = <<>>
    /\ batch = <<>> /\ rnds = <<>> /\ bgen = NoGenerator /\ sub = NoSub
    /\ yielded = <<>> /\ passes = <<>> /\ fit_log = <<>> /\ saved = <<>>
    /\ batch_test = <<>> /\ batch_predict = <<>>
    /\ predict_target = <<>> /\ U_pred = <<>>
    /\ pc = "prepare" /\ error = "none"

\* Every window, kernel list and batch size within the bounds, on a grid
\* without undefined values, prepared as the notebook does (mask_time equal
\* to the training time).
Init ==
    /\ grid \in (1..MaxLat) \X (1..MaxLon)
    /\ conv_dims \in (1..MaxWin) \X (1..MaxWin)
    /\ conv_kernels \in KernelLists(MaxLayers, MaxKernel)
    /\ batch_size \in 1..MaxBatch
    /\ AnchorPairs(grid, conv_dims, conv_kernels) <= MaxPatches
    /\ mask_time = TrainingTime
    /\ raw_nan = {}
    /\ InitNotebook

\* Grids with undefined values at the mask time and at the training time,
\* for the configurations with a single-layer unit kernel that have at least
\* one anchor pair, prepared with the default mask_time.
InitData ==
    /\ grid \in (1..DataLat) \X (1..DataLon)
    /\ conv_dims \in (1..DataWin) \X (1..DataWin)
    /\ conv_kernels = <<1>>
    /\ batch_size = 1
    /\ AnchorPairs(grid, conv_dims, conv_kernels) \in 1..DataPatches
    /\ mask_time = MaskTimeDefault
    /\ raw_nan \in NaNSets(Elems(varList(sc)) \X {MaskTimeDefault, TrainingTime}
                             \X RawPoints(grid), MaxNaN)
    /\ InitNotebook

\* The notebook's shape of configuration, conv_dims = [k, k] with
\* conv_kernels = [k], with the largest batch size and larger patch
\* collections: the configurations whose prediction map has several rows
\* and columns.
InitMap ==
    /\ grid \in (1..MaxLat) \X (1..MaxLon)
    /\ \E k \in 1..MaxKernel : conv_kernels = <<k>> /\ conv_dims = <<k, k>>
    /\ batch_size = MaxBatch
    /\ AnchorPairs(grid, conv_dims, conv_kernels) <= MapPatches
    /\ mask_time = TrainingTime
    /\ raw_nan = {}
    /\ InitNotebook

---------------------------------------------------------------------------
(* The cells, in notebook order.  An exception stops the run at the cell   *)
(* that raised it: pc stays there and no later cell runs.                  *)

Halt(e) == pc' = pc /\ error' = e
Goto(l) == pc' = l /\ error' = error

\* prepare_data(sc5, 200, 1000, 1000, mask_time)
PrepareData ==
    /\ pc = "prepare" /\ error = "none"
    /\ LET r == prepare_data(store, raw_nan, grid, sc5, TrainingTime, TestTime,
                             PredictTime, mask_time, "ok")
       IN /\ store' = r.store
          /\ prep' = [s |-> sc5, training_time |-> TrainingTime,
                      test_time |-> TestTime, predict_time |-> PredictTime,
                      mask_time |-> mask_time, catalog |-> "ok", error |-> r.error,
                      before |-> store]
          /\ IF r.error = "none" THEN Goto("load_training") ELSE Halt(r.error)
    /\ UNCHANGED <<made, raw_nan, grid, conv_dims, conv_kernels, batch_size, mask_time,
                   ds_training, ds_test, ds_predict, halo_size, nlons, nlats,
                   latlen, lonlen, nlon_range, nlat_range, batch, rnds, bgen, sub,
                   yielded, passes, fit_log, saved, batch_test, batch_predict,
                   predict_target, U_pred>>

\* ds_training = select_from(just_the_data(load_training_data(sc5)))
LoadTraining ==
    /\ pc = "load_training" /\ error = "none"
    /\ ds_training' = select_from(just_the_data(loader(store, sc5, "training")), grid)
    /\ Goto("halo")
    /\ UNCHANGED <<prep, made, raw_nan, grid, conv_dims, conv_kernels, batch_size, mask_time,
                   store, ds_test, ds_predict, halo_size, nlons, nlats,
                   latlen, lonlen, nlon_range, nlat_range, batch, rnds, bgen, sub,
                   yielded, passes, fit_log, saved, batch_test, batch_predict,
                   predict_target, U_pred>>

\* halo_size = int(...); nlons, nlats = conv_dims
ComputeHalo ==
    /\ pc = "halo" /\ error = "none"
    /\ halo_size' = HaloSize(conv_kernels)
    /\ nlons' = conv_dims[1]
    /\ nlats' = conv_dims[2]
    /\ Goto("build")
    /\ UNCHANGED <<prep, made, raw_nan, grid, conv_dims, conv_kernels, batch_size, mask_time,
                   store, ds_training, ds_test, ds_predict,
                   latlen, lonlen, nlon_range, nlat_range, batch, rnds, bgen, sub,
                   yielded, passes, fit_log, saved, batch_test, batch_predict,
                   predict_target, U_pred>>

\* latlen, lonlen, nlon_range, nlat_range and batch of the training slice
BuildBatch ==
    /\ pc = "build" /\ error = "none"
    /\ LET r == BuildOutcome(ds_training, nlats, nlons, halo_size, nlon_range, nlat_range)
       IN /\ latlen' = ds_training.dims[1]
          /\ lonlen' = ds_training.dims[2]
          /\ nlon_range' = r.nlon_range
          /\ nlat_range' = r.nlat_range
          /\ batch' = IF r.error = "none" THEN r.patches ELSE batch
          /\ IF r.error = "none" THEN Goto("shuffle") ELSE Halt(r.error)
    /\ UNCHANGED <<prep, made, raw_nan, grid, conv_dims, conv_kernels, batch_size, mask_time,
                   store, ds_training, ds_test, ds_predict, halo_size, nlons, nlats,
                   rnds, bgen, sub, yielded, passes, fit_log, saved,
                   batch_test, batch_predict, predict_target, U_pred>>

\* rnds = list(range(len(batch))); np.random.shuffle(rnds); batch = batch[rnds]
Shuffle ==
    /\ pc = "shuffle" /\ error = "none"
    /\ \E order \in ShuffleOutcomes(Len(batch)) :
          /\ rnds' = order
          /\ batch' = Isel(batch, order)
    /\ Goto("generator")
    /\ UNCHANGED <<prep, made, raw_nan, grid, conv_dims, conv_kernels, batch_size, mask_time,
                   store, ds_training, ds_test, ds_predict, halo_size, nlons, nlats,
                   latlen, lonlen, nlon_range, nlat_range, bgen, sub,
                   yielded, passes, fit_log, saved, batch_test, batch_predict,
                   predict_target, U_pred>>

\* bgen = batch_generator(batch, batch_size); sub = {...}
MakeGenerator ==
    /\ pc = "generator" /\ error = "none"
    /\ bgen' = batch_generator(batch, batch_size)
    /\ made' = made + 1
    /\ sub' = Sub(halo_size, nlons, nlats)
    /\ Goto("train")
    /\ UNCHANGED <<prep, raw_nan, grid, conv_dims, conv_kernels, batch_size, mask_time,
                   store, ds_training, ds_test, ds_predict, halo_size, nlons, nlats,
                   latlen, lonlen, nlon_range, nlat_range, batch, rnds,
                   yielded, passes, fit_log, saved, batch_test, batch_predict,
                   predict_target, U_pred>>

\* One turn of `for batch in bgen`: next(bgen), then either the loop body
\* (the three tensors and model.fit) or the end of the loop.
TrainStep ==
    /\ pc = "train" /\ error = "none"
    /\ LET r == GenNext(bgen)
       IN /\ bgen' = r.gen
          /\ IF r.yields
             THEN /\ batch' = r.value
                  /\ yielded' = Append(yielded, r.value)
                  /\ fit_log' = Append(fit_log, FitArgs(r.value, sc, sub, nlats, nlons))
                  /\ passes' = passes
                  /\ Goto("train")
             ELSE /\ batch' = batch
                  /\ yielded' = <<>>
                  /\ fit_log' = fit_log
                  /\ passes' = Append(passes, yielded)
                  /\ Goto("save")
    /\ UNCHANGED <<prep, made, raw_nan, grid, conv_dims, conv_kernels, batch_size, mask_time,
                   store, ds_training, ds_test, ds_predict, halo_size, nlons, nlats,
                   latlen, lonlen, nlon_range, nlat_range, rnds, sub, saved,
                   batch_test, batch_predict, predict_target, U_pred>>

\* The loop cell run once more over the same generator object.
RerunLoop ==
    /\ pc = "save" /\ error = "none"
    /\ Len(passes) < MaxPasses
    /\ Goto("train")
    /\ UNCHANGED <<prep, made, raw_nan, grid, conv_dims, conv_kernels, batch_size, mask_time,
                   store, ds_training, ds_test, ds_predict, halo_size, nlons, nlats,
                   latlen, lonlen, nlon_range, nlat_range, batch, rnds, bgen, sub,
                   yielded, passes, fit_log, saved, batch_test, batch_predict,
                   predict_target, U_pred>>

\* The cell `bgen = batch_generator(batch, batch_size)` run again after the
\* training loop, followed by the loop cell: it reads the global `batch` as
\* the loop left it.
RemakeGenerator ==
    /\ pc = "save" /\ error = "none"
    /\ Len(passes) < MaxPasses
    /\ bgen' = batch_generator(batch, batch_size)
    /\ made' = made + 1
    /\ Goto("train")
    /\ UNCHANGED <<prep, raw_nan, grid, conv_dims, conv_kernels, batch_size, mask_time,
                   store, ds_training, ds_test, ds_predict, halo_size, nlons, nlats,
                   latlen, lonlen, nlon_range, nlat_range, batch, rnds, sub,
                   yielded, passes, fit_log, saved, batch_test, batch_predict,
                   predict_target, U_pred>>

\* model.save('models/' + sc.name); np.savez('models/history_' + sc.name, ...)
SaveModel ==
    /\ pc = "save" /\ error = "none"
    /\ saved' = Append(saved, [model   |-> <<"models/", sc.name>>,
                               history |-> <<"models/history_", sc.name>>,
                               fits    |-> Len(fit_log)])
    /\ Goto("load_test")
    /\ UNCHANGED <<prep, made, raw_nan, grid, conv_dims, conv_kernels, batch_size, mask_time,
                   store, ds_training, ds_test, ds_predict, halo_size, nlons, nlats,
                   latlen, lonlen, nlon_range, nlat_range, batch, rnds, bgen, sub,
                   yielded, passes, fit_log, batch_test, batch_predict,
                   predict_target, U_pred>>

\* ds_test = select_from(just_the_data(load_test_data(sc5)))
LoadTest ==
    /\ pc = "load_test" /\ error = "none"
    /\ ds_test' = select_from(just_the_data(loader(store, sc5, "test")), grid)
    /\ Goto("build_test")
    /\ UNCHANGED <<prep, made, raw_nan, grid, conv_dims, conv_kernels, batch_size, mask_time,
                   store, ds_training, ds_predict, halo_size, nlons, nlats,
                   latlen, lonlen, nlon_range, nlat_range, batch, rnds, bgen, sub,
                   yielded, passes, fit_log, saved, batch_test, batch_predict,
                   predict_target, U_pred>>

\* latlen, lonlen, nlon_range, nlat_range and batch_test of the test slice
BuildBatchTest ==
    /\ pc = "build_test" /\ error = "none"
    /\ LET r == BuildOutcome(ds_test, nlats, nlons, halo_size, nlon_range, nlat_range)
       IN /\ latlen' = ds_test.dims[1]
          /\ lonlen' = ds_test.dims[2]
          /\ nlon_range' = r.nlon_range
          /\ nlat_range' = r.nlat_range
          /\ batch_test' = IF r.error = "none" THEN r.patches ELSE batch_test
          /\ IF r.error = "none" THEN Goto("load_predict") ELSE Halt(r.error)
    /\ UNCHANGED <<prep, made, raw_nan, grid, conv_dims, conv_kernels, batch_size, mask_time,
                   store, ds_training, ds_test, ds_predict, halo_size, nlons, nlats,
                   batch, rnds, bgen, sub, yielded, passes, fit_log, saved,
                   batch_predict, predict_target, U_pred>>

\* ds_predict = select_from(just_the_data(load_predict_data(sc5)))
LoadPredict ==
    /\ pc = "load_predict" /\ error = "none"
    /\ ds_predict' = select_from(just_the_data(loader(store, sc5, "predict")), grid)
    /\ Goto("build_predict")
    /\ UNCHANGED <<prep, made, raw_nan, grid, conv_dims, conv_kernels, batch_size, mask_time,
                   store, ds_training, ds_test, halo_size, nlons, nlats,
                   latlen, lonlen, nlon_range, nlat_range, batch, rnds, bgen, sub,
                   yielded, passes, fit_log, saved, batch_test, batch_predict,
                   predict_target, U_pred>>

\* latlen, lonlen, nlon_range, nlat_range and batch_predict of the
\* prediction slice
BuildBatchPredict ==
    /\ pc = "build_predict" /\ error = "none"
    /\ LET r == BuildOutcome(ds_predict, nlats, nlons, halo_size, nlon_range, nlat_range)
       IN /\ latlen' = ds_predict.dims[1]
          /\ lonlen' = ds_predict.dims[2]
          /\ nlon_range' = r.nlon_range
          /\ nlat_range' = r.nlat_range
          /\ batch_predict' = IF r.error = "none" THEN r.patches ELSE batch_predict
          /\ IF r.error = "none" THEN Goto("predict") ELSE Halt(r.error)
    /\ UNCHANGED <<prep, made, raw_nan, grid, conv_dims, conv_kernels, batch_size, mask_time,
                   store, ds_training, ds_test, ds_predict, halo_size, nlons, nlats,
                   batch, rnds, bgen, sub, yielded, passes, fit_log, saved,
                   batch_test, predict_target, U_pred>>

\* predict_conv and predict_input are built from batch_test;
\* predict_target = model.predict([predict_conv, predict_input]) has one
\* entry per sample, on the points the target stencil keeps.
Predict ==
    /\ pc = "predict" /\ error = "none"
    /\ predict_target' = SubTensor(batch_test, sc.target, sub)
    /\ Goto("reshape")
    /\ UNCHANGED <<prep, made, raw_nan, grid, conv_dims, conv_kernels, batch_size, mask_time,
                   store, ds_training, ds_test, ds_predict, halo_size, nlons, nlats,
                   latlen, lonlen, nlon_range, nlat_range, batch, rnds, bgen, sub,
                   yielded, passes, fit_log, saved, batch_test, batch_predict,
                   U_pred>>

\* U_pred = predict_target[:,0,0,0].reshape(rows, cols).  The literal shape
\* of the cell is an input of the step: the cell raises IndexError when the
\* predictions have no point <<0, 0>> and ValueError when the number of
\* samples is not rows * cols.
ReshapePrediction ==
    /\ pc = "reshape" /\ error = "none"
    /\ \E shape \in (1..MaxLat) \X (1..MaxLon) :
          IF Len(predict_target.nlat) = 0 \/ Len(predict_target.nlon) = 0
          THEN U_pred' = U_pred /\ Halt("IndexError")
          ELSE IF Len(predict_target.samples) # shape[1] * shape[2]
          THEN U_pred' = U_pred /\ Halt("ValueError")
          ELSE /\ U_pred' = Reshape(predict_target.samples, shape[1], shape[2])
               /\ Goto("done")
    /\ UNCHANGED <<prep, made, raw_nan, grid, conv_dims, conv_kernels, batch_size, mask_time,
                   store, ds_training, ds_test, ds_predict, halo_size, nlons, nlats,
                   latlen, lonlen, nlon_range, nlat_range, batch, rnds, bgen, sub,
                   yielded, passes, fit_log, saved, batch_test, batch_predict,
                   predict_target>>

Next ==
    \/ PrepareData
    \/ LoadTraining
    \/ ComputeHalo
    \/ BuildBatch
    \/ Shuffle
    \/ MakeGenerator
    \/ TrainStep
    \/ RerunLoop
    \/ RemakeGenerator
    \/ SaveModel
    \/ LoadTest
    \/ BuildBatchTest
    \/ LoadPredict
    \/ BuildBatchPredict
    \/ Predict
    \/ ReshapePrediction

---------------------------------------------------------------------------
(* The preparer on its own: prepare_data called any number of times on the  *)
(* same store.                                                             *)

Roles == {"training", "test", "predict"}

\* The literal prefix of the group key prepare_data writes for a role.
RolePrefix(role) ==
    IF role = "training" THEN "training_"
    ELSE IF role = "test" THEN "test_" ELSE "predict_"

\* Scenarios passed to prepare_data: sc5, another variable list under the
\* name of sc5, and a scenario with a variable the catalog does not have.
PrepScenarios ==
    {sc5, [sc1 EXCEPT !.name = sc5.name], [sc5 EXCEPT !.conv_var = <<"SSH", "SSS">>]}

\* Calls with a reachable, complete catalog: each time index either valid or
\* one past the end of the time axis.
PrepCallsOk ==
    [s : PrepScenarios,
     training_time : {TrainingTime, TimeAxisLen},
     test_time : {TestTime, TimeAxisLen},
     predict_time : {PredictTime, TrainingTime, -1, TimeAxisLen},
     mask_time : {MaskTimeDefault, TimeAxisLen},
     catalog : {"ok"}]

\* The notebook's call with the catalog unreachable or lacking a variable
\* the rename expects.
PrepCallsBad ==
    [s : PrepScenarios,
     training_time : {TrainingTime}, test_time : {TestTime},
     predict_time : {PredictTime}, mask_time : {MaskTimeDefault},
     catalog : {"unreachable", "missing_variable"}]

InitPrep ==
    /\ grid = <<1, 1>>
    /\ conv_dims = <<NotebookWindow, NotebookWindow>>
    /\ conv_kernels = <<NotebookWindow>>
    /\ batch_size = 1
    /\ mask_time = MaskTimeDefault
    /\ raw_nan = {}
    /\ InitNotebook

\* One call of prepare_data with any of the arguments above.
PrepareCall ==
    /\ pc = "prepare" /\ error = "none"
    /\ \E c \in PrepCallsOk \cup PrepCallsBad :
          LET r == prepare_data(store, raw_nan, grid, c.s, c.training_time,
                                c.test_time, c.predict_time, c.mask_time, c.catalog)
          IN /\ store' = r.store
             /\ prep' = [s |-> c.s, training_time |-> c.training_time,
                         test_time |-> c.test_time, predict_time |-> c.predict_time,
                         mask_time |-> c.mask_time, catalog |-> c.catalog,
                         error |-> r.error, before |-> store]
    /\ UNCHANGED <<made, raw_nan, grid, conv_dims, conv_kernels, batch_size, mask_time,
                   ds_training, ds_test, ds_predict, halo_size, nlons, nlats,
                   latlen, lonlen, nlon_range, nlat_range, batch, rnds, bgen, sub,
                   yielded, passes, fit_log, saved, batch_test, batch_predict,
                   predict_target, U_pred, pc, error>>

NextPrep == PrepareCall

Spec == Init /\ [][Next]_vars

SpecData == InitData /\ [][Next]_vars

SpecMap == InitMap /\ [][Next]_vars

SpecPrep == InitPrep /\ [][NextPrep]_vars

---------------------------------------------------------------------------
(* Properties.                                                             *)

\* The cells before the training-slice ranges and patches exist.
BeforeBuild == pc \in {"prepare", "load_training", "halo"} \/ (pc = "build" /\ error = "none")

\* The training-slice build cell has run to its end.
Built == ~BeforeBuild /\ ~(pc = "build" /\ error # "none")

\* Both ranges of the last build cell have been assigned.
RangesAssigned == ~BeforeBuild /\ ~(pc = "build" /\ error = "ValueError")

\* The shuffled training collection: `batch` until the loop rebinds the
\* name, the batch_set of the first generator (made <= 1) from then on.
Shuffled == IF pc = "generator" THEN batch ELSE bgen.batch_set
AfterShuffle == Built /\ pc # "shuffle"

\* The first pass over bgen is complete.
FirstPassDone == Len(passes) >= 1

\* The k-th contiguous slice [(k-1)*B, k*B) of a collection.
SliceOf(coll, k, bsize) == [i \in 1..bsize |-> coll[(k - 1) * bsize + i]]

\* C1: the first pass over batch_generator(batch_set, B) yields, in order,
\* exactly the slices [k*B, (k+1)*B) for every k with (k+1)*B <= N, that is
\* floor(N/B) mini-batches, also when N is a multiple of B.
C1_YieldsEveryFullBatch ==
    (FirstPassDone /\ made = 1) =>
        LET N == Len(bgen.batch_set)
            B == bgen.batch_size
        IN passes[1] = [k \in 1..(N \div B) |-> SliceOf(bgen.batch_set, k, B)]

\* C2: when the window of an axis is not larger than twice the halo, the
\* patch construction cell ends in an error; it never runs to its end.
C2_SmallWindowIsError ==
    (~BeforeBuild /\ (nlats <= 2 * halo_size \/ nlons <= 2 * halo_size))
        => (pc = "build" /\ error # "none")

\* The anchors w, w + stride, w + 2*stride, ... below len, as a set.
AnchorSet(w, stride, len) == {x \in w..(len - 1) : (x - w) % stride = 0}

StrictlyIncreasing(r) == \A i \in 1..(Len(r) - 1) : r[i] < r[i + 1]

AnchorsAsSpecified(r, w, halo, len) ==
    w > 2 * halo =>
        /\ Stride(w, halo) > 0
        /\ StrictlyIncreasing(r)
        /\ Elems(r) = AnchorSet(w, Stride(w, halo), len)
        /\ (w < len => r # <<>> /\ r[1] = w)
        /\ \A i \in 1..Len(r) : r[i] >= w /\ r[i] < len

\* C7: on an axis with window w > 2*halo the stride is positive and the
\* anchor sequence is exactly w, w + stride, ... restricted to values below
\* the axis length: strictly increasing, first element w when w is below the
\* axis length, every element in [w, length).
C7_AnchorSequence ==
    RangesAssigned =>
        /\ AnchorsAsSpecified(nlat_range, nlats, halo_size, latlen)
        /\ AnchorsAsSpecified(nlon_range, nlons, halo_size, lonlen)

C7_Witness ==
    /\ RangesAssigned
    /\ nlats > 2 * halo_size /\ nlons > 2 * halo_size
    /\ Stride(nlats, halo_size) >= 2
    /\ Len(nlat_range) >= 2
    /\ Len(nlon_range) >= 1

\* The training patch collection as built, before or after the shuffle.
TrainingPatches == IF pc = "shuffle" THEN batch ELSE Shuffled

Present(coll, a, b) == \E i \in 1..Len(coll) : coll[i].nlat = a /\ coll[i].nlon = b

\* Some variable of ds is NaN at some grid point of the window that ends at
\* the anchor pair <<a, b>>.
UndefinedIn(ds, a, b, wlat, wlon) ==
    \E c \in ds.nan :
        /\ c[1] \in ds.vars
        /\ c[2][1] \in (a - wlat + 1)..a
        /\ c[2][2] \in (b - wlon + 1)..b

\* C3: for every anchor pair the patch is absent from the training patch
\* collection if some variable is NaN somewhere in its window, and present
\* if no variable is.
C3_PatchExclusionExact ==
    (Built /\ made <= 1) =>
        \A i \in 1..RangeLen(nlats, grid[1], Stride(nlats, halo_size)) :
        \A j \in 1..RangeLen(nlons, grid[2], Stride(nlons, halo_size)) :
            LET a == Range(nlats, grid[1], Stride(nlats, halo_size))[i]
                b == Range(nlons, grid[2], Stride(nlons, halo_size))[j]
            IN Present(TrainingPatches, a, b)
                   <=> ~UndefinedIn(ds_training, a, b, nlats, nlons)

\* A patch was dropped for a NaN in a target variable only, and another
\* patch was kept.
C3_Witness ==
    /\ pc = "shuffle"
    /\ Len(batch) >= 1
    /\ Len(batch) < Len(nlat_range) * Len(nlon_range)
    /\ ds_training.nan # {}
    /\ \A c \in ds_training.nan : c[1] \in Elems(sc.target)

\* C4: no patch of the training collection, and so no sample passed to
\* model.fit, covers a grid point where the validity mask is false.
C4_MaskFalsePointsExcluded ==
    /\ (Built /\ made <= 1) =>
          \A i \in 1..Len(TrainingPatches) : TrainingPatches[i].maskFalse = {}
    /\ \A k \in 1..Len(fit_log) :
          \A i \in 1..Len(fit_log[k].batch_conv.samples) :
              fit_log[k].batch_conv.samples[i].maskFalse = {}

\* Every mini-batch delivered so far, in any pass.
RECURSIVE Flatten(_)
Flatten(ss) == IF ss = <<>> THEN <<>> ELSE Head(ss) \o Flatten(Tail(ss))

Delivered == Flatten(passes) \o yielded

InnerIndices(w, halo) == {i \in 0..(w - 1) : i >= halo /\ i < w - halo}

\* C5: every delivered mini-batch has exactly batch_size patches; the
\* convolution tensor of each fit call has the full window and one channel
\* per conv variable, the dense and target tensors have exactly the window
\* points with index in [halo, window - halo) on both axes.
C5_BatchShapes ==
    /\ \A k \in 1..Len(Delivered) : Len(Delivered[k]) = batch_size
    /\ \A k \in 1..Len(fit_log) :
          LET f == fit_log[k]
              inner == <<nlats - 2 * halo_size, nlons - 2 * halo_size>>
          IN /\ Shape(f.batch_conv) = <<batch_size, nlats, nlons, Len(sc.conv_var)>>
             /\ Shape(f.batch_input) = <<batch_size, inner[1], inner[2], Len(sc.input_var)>>
             /\ Shape(f.batch_target) = <<batch_size, inner[1], inner[2], Len(sc.target)>>
             /\ Elems(f.batch_conv.nlat) = 0..(nlats - 1)
             /\ Elems(f.batch_conv.nlon) = 0..(nlons - 1)
             /\ Elems(f.batch_input.nlat) = InnerIndices(nlats, halo_size)
             /\ Elems(f.batch_input.nlon) = InnerIndices(nlons, halo_size)
             /\ Elems(f.batch_target.nlat) = InnerIndices(nlats, halo_size)
             /\ Elems(f.batch_target.nlon) = InnerIndices(nlons, halo_size)
    /\ LET stencil == Sub(HaloSize(<<NotebookWindow>>), NotebookWindow, NotebookWindow)
       IN Len(stencil.nlat) = 1 /\ Len(stencil.nlon) = 1

C5_Witness ==
    /\ Len(fit_log) >= 1
    /\ batch_size >= 2
    /\ halo_size >= 1
    /\ nlats - 2 * halo_size >= 1
    /\ nlons - 2 * halo_size >= 1

\* A grid point whose receptive field (the point and halo neighbours on each
\* side, on both axes) lies inside the grid.
FullField(p, halo, nrows, ncols) ==
    /\ p[1] - halo >= 0 /\ p[1] + halo <= nrows - 1
    /\ p[2] - halo >= 0 /\ p[2] + halo <= ncols - 1

\* p is an inner (non-halo) point of the window that ends at <<a, b>>.
InnerPointOf(p, a, b, wlat, wlon, halo) ==
    /\ p[1] >= a - wlat + 1 + halo /\ p[1] <= a - halo
    /\ p[2] >= b - wlon + 1 + halo /\ p[2] <= b - halo

\* C6: with a positive stride on both axes, every grid point whose full
\* receptive field lies inside the grid is an inner point of at least one
\* constructed patch.
C6_Coverage ==
    (pc = "shuffle" /\ Stride(nlats, halo_size) > 0 /\ Stride(nlons, halo_size) > 0) =>
        \A p \in (0..(latlen - 1)) \X (0..(lonlen - 1)) :
            FullField(p, halo_size, latlen, lonlen) =>
                \E i \in 1..Len(nlat_range), j \in 1..Len(nlon_range) :
                    InnerPointOf(p, nlat_range[i], nlon_range[j], nlats, nlons, halo_size)

IsPermutation(idx, n) ==
    /\ Len(idx) = n
    /\ \A k \in 0..(n - 1) : \E i \in 1..n : idx[i] = k
    /\ \A i, j \in 1..n : idx[i] = idx[j] => i = j

\* The NaN-filtered anchor-pair enumeration of the training slice.
Filtered ==
    Patches(ds_training,
            Range(nlats, grid[1], Stride(nlats, halo_size)),
            Range(nlons, grid[2], Stride(nlons, halo_size)), nlats, nlons)

\* C8: the shuffled training collection is a permutation of the NaN-filtered
\* anchor-pair enumeration (nothing lost, nothing duplicated), and every
\* mini-batch delivered later is the next contiguous slice of that order.
C8_ShuffleIsPermutation ==
    (AfterShuffle /\ made <= 1) =>
        LET F == Filtered
            S == Shuffled
        IN /\ IsPermutation(rnds, Len(F))
           /\ Len(S) = Len(F)
           /\ \A i \in 1..Len(S) : S[i] = F[rnds[i] + 1]
           /\ \A a \in 1..Len(F) :
                 Cardinality({i \in 1..Len(S) : S[i] = F[a]}) = 1
           /\ (FirstPassDone \/ pc = "train") =>
                 LET first == IF FirstPassDone THEN passes[1] ELSE yielded
                 IN \A k \in 1..Len(first) : first[k] = SliceOf(S, k, bgen.batch_size)

C8_Witness ==
    /\ FirstPassDone
    /\ Len(passes[1]) >= 2
    /\ Len(Filtered) < Len(nlat_range) * Len(nlon_range)
    /\ \E i \in 1..Len(rnds) : rnds[i] # i - 1

\* C9: iterating the consumed generator again (the same generator object,
\* bound once) delivers the same sequence of mini-batches as the first pass.
C9_SecondPassRepeatsFirst ==
    (Len(passes) >= 2 /\ made = 1) => passes[2] = passes[1]

\* C10: when the reshape is given the shape (len(nlat_range),
\* len(nlon_range)) and one prediction per anchor pair, the prediction of the
\* i-th row anchor and j-th column anchor is at map position (i, j); for the
\* notebook's 550 x 350 grid, window 5 and kernel [5] the two lengths are
\* the literals of its reshape.
C10_Reassembly ==
    /\ (pc = "done" /\ Len(U_pred) = Len(nlat_range)
                    /\ Len(U_pred[1]) = Len(nlon_range)) =>
          \A i \in 1..Len(nlat_range), j \in 1..Len(nlon_range) :
              /\ U_pred[i][j].nlat = nlat_range[i]
              /\ U_pred[i][j].nlon = nlon_range[j]
    /\ LET stride == Stride(NotebookWindow, HaloSize(<<NotebookWindow>>))
       IN /\ RangeLen(NotebookWindow, CropRows, stride) = ReshapeRows
          /\ RangeLen(NotebookWindow, CropCols, stride) = ReshapeCols

C10_Witness ==
    /\ pc = "done"
    /\ Len(U_pred) = Len(nlat_range)
    /\ Len(U_pred[1]) = Len(nlon_range)
    /\ Len(nlat_range) >= 3
    /\ Len(nlon_range) >= 2

\* The time argument of the last prepare_data call for a role.
RoleTime(call, role) ==
    IF role = "training" THEN call.training_time
    ELSE IF role = "test" THEN call.test_time ELSE call.predict_time

\* C11: the key prepare_data writes for a role and scenario name is the key
\* the loader reads for them, and after a prepare_data call that returned,
\* the loader of each role returns a dataset with exactly the data variables
\* conv_var + input_var + target plus 'mask', taken at the role's time index.
C11_RoundTrip ==
    /\ \A role \in Roles, s \in {sc1, sc5} :
          WriteKey(RolePrefix(role), s) = ReadKey(role, s)
    /\ prep.error = "none" =>
          \A role \in Roles :
              LET ds == loader(store, prep.s, role)
              IN /\ ds.vars = Elems(varList(prep.s)) \cup {"mask"}
                 /\ ds.time = TimeIndex(RoleTime(prep, role))
                 /\ ds.src = role

\* A call for sc5 returned whose prediction and test time indices differ.
C11_Witness ==
    /\ prep.error = "none"
    /\ prep.s = sc5
    /\ prep.predict_time = TrainingTime
    /\ prep.mask_time = MaskTimeDefault
    /\ loader(store, sc5, "predict").time # loader(store, sc5, "test").time

\* The call recorded in prep, made again on the store st.
Again(st) ==
    prepare_data(st, raw_nan, grid, prep.s, prep.training_time, prep.test_time,
                 prep.predict_time, prep.mask_time, prep.catalog)

\* C12: after a prepare_data call that returned, whatever the store held
\* before under the same scenario name, each of the three slices is the
\* slice the same call writes to an empty store (no variable of an earlier
\* run is left), and making the same call again leaves the store as it is.
C12_PrepareIdempotent ==
    prep.error = "none" =>
        /\ \A role \in Roles :
              loader(store, prep.s, role) = loader(Again(<<>>).store, prep.s, role)
        /\ Again(store).error = "none"
        /\ Again(store).store = store

\* The call returned on a store that held, under the same name, a training
\* slice with a variable the scenario of this call does not have.
C12_Witness ==
    /\ prep.error = "none"
    /\ ReadKey("training", prep.s) \in DOMAIN prep.before
    /\ ~(prep.before[ReadKey("training", prep.s)].vars
            \subseteq Elems(varList(prep.s)) \cup {"mask"})

\* C15: when prepare_data raises, every slice that was in the store before
\* the call is still there, unchanged.
C15_FailedCallLeavesStore ==
    prep.error \notin {"none", "not called"} =>
        \A k \in DOMAIN prep.before : k \in DOMAIN store /\ store[k] = prep.before[k]

\* prepare_data has returned.
Prepared == prep.error = "none"

\* C13: on each of the three persisted slices the mask is false at a grid
\* point exactly when SSH, TAUY or U is NaN there at index mask_time;
\* values at the training, test and prediction indices do not enter, and
\* the three slices carry the same mask.
C13_MaskAtReferenceTime ==
    Prepared =>
        \A role \in Roles :
            LET ds == loader(store, prep.s, role)
            IN /\ \A p \in RawPoints(grid) :
                     p \in ds.maskFalse <=>
                         \E v \in {"SSH", "TAUY", "U"} :
                             <<v, prep.mask_time, p>> \in raw_nan
               /\ ds.maskFalse \subseteq RawPoints(grid)
               /\ ds.maskFalse = loader(store, prep.s, "training").maskFalse

\* A mask variable is NaN at the training index but at no point of the
\* mask index, and the mask index is not the training index.
C13_Witness ==
    /\ Prepared
    /\ prep.mask_time # prep.training_time
    /\ \E c \in raw_nan : c[1] \in {"SSH", "TAUY", "U"} /\ c[2] = prep.training_time
    /\ loader(store, prep.s, "training").maskFalse = {}

\* The halo cell has run.
HaloComputed == pc \notin {"prepare", "load_training"} /\ ~(pc = "halo" /\ error = "none")

\* C14: when sum(k_i) - n is even the halo is (sum(k_i) - n) / 2; when it is
\* odd the halo cell ends in an error and assigns no halo.
C14_HaloExactOrError ==
    HaloComputed =>
        LET twice == Sum(conv_kernels) - Len(conv_kernels)
        IN IF twice % 2 = 0
           THEN 2 * halo_size = twice
           ELSE pc = "halo" /\ error # "none"

\* C16: model.fit is called once per mini-batch delivered, in the order of
\* delivery, with the convolution, dense and target tensors all built from
\* that mini-batch; the model and history are saved under the scenario name
\* only when the generator is exhausted, and no fit follows the save.
C16_FitPerBatchThenSave ==
    /\ Len(fit_log) = Len(Delivered)
    /\ \A k \in 1..Len(fit_log) :
          /\ fit_log[k].batch_conv.samples = Delivered[k]
          /\ fit_log[k].batch_input.samples = Delivered[k]
          /\ fit_log[k].batch_target.samples = Delivered[k]
          /\ fit_log[k].batch_conv.var = sc.conv_var
          /\ fit_log[k].batch_input.var = sc.input_var
          /\ fit_log[k].batch_target.var = sc.target
    /\ saved # <<>> =>
          /\ Len(saved) = 1
          /\ bgen.status = "done"
          /\ yielded = <<>>
          /\ Len(passes) >= 1
          /\ saved[1].fits = Len(fit_log)
          /\ saved[1].model = <<"models/", sc.name>>
          /\ saved[1].history = <<"models/history_", sc.name>>

\* The model was saved after two or more fits.
C16_Witness ==
    /\ saved # <<>>
    /\ Len(fit_log) >= 2
    /\ Len(passes[1]) >= 2

\* C17: the samples given to model.predict are the patches of the
\* prediction slice.
C17_PredictUsesPredictSlice ==
    pc \in {"reshape", "done"} =>
        /\ predict_target.samples = batch_predict
        /\ \A i \in 1..Len(predict_target.samples) :
              predict_target.samples[i].src = "predict"

\* C18: after the training loop the name `batch` still holds the shuffled
\* collection the generator was made from, and a generator made again from
\* `batch` delivers the mini-batches of the first pass.
C18_BatchSurvivesLoop ==
    /\ (pc = "save" /\ made = 1) => batch = bgen.batch_set
    /\ (Len(passes) >= 2 /\ made = 2) => passes[2] = passes[1]

\* The grid index of the first point the stencil keeps, for the window at
\* anchor a.
InnerPoint(a, w, stencil) == WindowStart(a, w) + stencil[1]

\* C19: for the 550 x 350 grid, window 5 and kernel [5], the inner point of
\* the patch at the i-th row anchor and j-th column anchor (counted from 0)
\* is grid point <<i + 3, j + 3>>, which is entry <<i, j>> of U[3:-2, 3:-2],
\* and both maps are 545 x 345.  In a run with stride 1, entry <<i, j>> of
\* the reshaped map is the prediction for grid point <<i + halo + 1,
\* j + halo + 1>>.
C19_GridAlignment ==
    /\ LET w    == NotebookWindow
           h    == HaloSize(<<NotebookWindow>>)
           rows == Range(w, CropRows, Stride(w, h))
           cols == Range(w, CropCols, Stride(w, h))
           st   == Sub(h, w, w)
           tr   == PySlice(CropRows, TrueFieldLo, TrueFieldHi)
           tc   == PySlice(CropCols, TrueFieldLo, TrueFieldHi)
       IN /\ Len(rows) = ReshapeRows /\ Len(tr) = ReshapeRows
          /\ Len(cols) = ReshapeCols /\ Len(tc) = ReshapeCols
          /\ Len(st.nlat) = 1 /\ Len(st.nlon) = 1
          /\ \A i \in 1..ReshapeRows :
                InnerPoint(rows[i], w, st.nlat) = tr[i] /\ tr[i] = (i - 1) + 3
          /\ \A j \in 1..ReshapeCols :
                InnerPoint(cols[j], w, st.nlon) = tc[j] /\ tc[j] = (j - 1) + 3
    /\ (/\ pc = "done"
        /\ Stride(nlats, halo_size) = 1 /\ Stride(nlons, halo_size) = 1
        /\ Len(U_pred) = Len(nlat_range) /\ Len(U_pred[1]) = Len(nlon_range)) =>
          \A i \in 1..Len(U_pred), j \in 1..Len(U_pred[1]) :
              /\ InnerPoint(U_pred[i][j].nlat, nlats, sub.nlat) = (i - 1) + halo_size + 1
              /\ InnerPoint(U_pred[i][j].nlon, nlons, sub.nlon) = (j - 1) + halo_size + 1

\* A prediction map with two rows was assembled for a window with a halo.
C19_Witness ==
    /\ pc = "done"
    /\ halo_size >= 1
    /\ Stride(nlats, halo_size) = 1 /\ Stride(nlons, halo_size) = 1
    /\ Len(U_pred) = Len(nlat_range) /\ Len(U_pred[1]) = Len(nlon_range)
    /\ Len(U_pred) >= 2

\* The ranges of the last patch construction cell were built without error.
LastBuildDone ==
    /\ ~BeforeBuild
    /\ ~(pc \in {"build", "build_test", "build_predict"} /\ error # "none")

\* C20: every anchor a of either range has 0 <= a - w + 1 and a <= L - 1, so
\* every selected window lies inside the grid; on a grid without NaN no
\* patch holds a NaN (none has padding) and none is dropped: each patch
\* collection has len(nlat_range) * len(nlon_range) patches.
C20_PatchesInsideGrid ==
    LastBuildDone =>
        /\ \A i \in 1..Len(nlat_range) :
              nlat_range[i] - nlats + 1 >= 0 /\ nlat_range[i] <= latlen - 1
        /\ \A j \in 1..Len(nlon_range) :
              nlon_range[j] - nlons + 1 >= 0 /\ nlon_range[j] <= lonlen - 1
        /\ raw_nan = {} =>
              /\ pc = "shuffle" =>
                    /\ Len(batch) = Len(nlat_range) * Len(nlon_range)
                    /\ \A k \in 1..Len(batch) : batch[k].nan = {}
              /\ pc \in {"load_predict", "build_predict", "predict", "reshape", "done"} =>
                    Len(batch_test) = Len(nlat_range) * Len(nlon_range)
              /\ pc \in {"predict", "reshape", "done"} =>
                    Len(batch_predict) = Len(nlat_range) * Len(nlon_range)

\* Two or more patches were built with a window longer than one point on
\* both axes.
C20_Witness ==
    /\ pc = "shuffle"
    /\ nlats >= 2 /\ nlons >= 2
    /\ Len(batch) >= 2
    /\ Len(batch) = Len(nlat_range) * Len(nlon_range)


============================================================================
